---- MODULE Spec2Model ----
(***************************************************************************)
(* Model of server.ts: the embedded store (database.db) with its schema    *)
(* setup, column migrations and seeding at startup, the login and CRUD     *)
(* request handlers, and the upload directory.                             *)
(***************************************************************************)
EXTENDS Naturals, Sequences, FiniteSets, TLC

VARIABLES
    pc,       \* position of the process in startServer ("down" = not running)
    idx,      \* index of the forEach loop of a seed step
    db,       \* database.db: columns, rows and AUTOINCREMENT counter of each table
    files,    \* the upload directory: filename -> bytes
    req,      \* the request handled last: its route and the fields the properties read
    res,      \* the response sent last
    errlog,   \* console.error calls of the current startup
    boot,     \* history: the store as the current startup found it
    crashes,  \* history: startups that died before listening, since the last one that listened
    uploads,  \* history: the uploads stored so far, with the URL each was answered with
    nreq      \* history: number of requests handled, where the specification bounds it

vars == <<pc, idx, db, files, req, res, errlog, boot, crashes, uploads, nreq>>

----------------------------------------------------------------------------
(* Bounds of the model *)

\* the AUTOINCREMENT counter of users up to which requests that write users are taken
MaxUserId == 3
\* startups that may die in a row
MaxCrashes == 1
\* requests handled in a behaviour of the content and CRUD specifications
MaxRequests == 3
\* uploads stored in a behaviour of the upload specification
MaxUploads == 2
\* Date.now() values an upload may see: 1..MaxTime
MaxTime == 2

----------------------------------------------------------------------------
(* Values *)

\* SQL NULL; also what an undefined or null request field is bound as
NULL == "<NULL>"

Tables == {"users", "services", "team"}

\* CREATE TABLE column lists
UsersCols == <<"id", "username", "password", "name", "role">>
ServicesCols == <<"id", "title", "description", "icon", "file_url">>
TeamCols == <<"id", "name", "title", "image", "icon">>

DeclaredCols(t) ==
    CASE t = "users" -> UsersCols
      [] t = "services" -> ServicesCols
      [] t = "team" -> TeamCols

\* the column each migration looks for
OptionalCol(t) ==
    CASE t = "users" -> "role"
      [] t = "services" -> "file_url"
      [] t = "team" -> "icon"

\* DEFAULT clause of a column (none: NULL)
ColumnDefault(t, c) == IF t = "users" /\ c = "role" THEN "editor" ELSE NULL

Range(s) == {s[i] : i \in 1..Len(s)}

\* the default content of the seed steps (strings transliterated to ASCII, descriptions cut)
initialServices == <<
    [icon |-> "Leaf", title |-> "Moi truong & Nang luong", description |-> "Tu van tuan thu quy dinh moi truong"],
    [icon |-> "Globe", title |-> "Du lich & Khach san", description |-> "Ho tro phap ly toan dien"],
    [icon |-> "Building2", title |-> "Bat dong san & Xay dung", description |-> "Tu van phap ly du an"],
    [icon |-> "Briefcase", title |-> "Tu van Doanh nghiep", description |-> "Thanh lap, tai cau truc, M&A"],
    [icon |-> "Gavel", title |-> "Tranh tung & Giai quyet", description |-> "Dai dien tham gia to tung"],
    [icon |-> "Scale", title |-> "So huu tri tue", description |-> "Dang ky bao ho, li-xang"] >>

initialTeam == <<
    [name |-> "LS. Le Van Tai", title |-> "Giam doc dieu hanh", image |-> "https://images.unsplash.com/photo-1560250097-0b93528c311a"],
    [name |-> "Mrs. Pham Thi My Linh", title |-> "Truong ban Quan he khach hang", image |-> "https://images.unsplash.com/photo-1573496359142-b8d87734a5a2"],
    [name |-> "LS. Le Van C", title |-> "Luat su cao cap", image |-> "https://images.unsplash.com/photo-1519085360753-af0119f7cbe7"] >>

----------------------------------------------------------------------------
(* The store: statements of better-sqlite3 as operators on the database *)

\* PRAGMA table_info(t) ... .some(col => col.name === c)
HasColumn(d, t, c) == c \in Range(d.cols[t])

\* CREATE TABLE IF NOT EXISTS t (...)
CreateTable(d, t) ==
    IF d.cols[t] # <<>> THEN d ELSE [d EXCEPT !.cols[t] = DeclaredCols(t)]

\* ALTER TABLE t ADD COLUMN c ...: fails on a column the table has
AlterAddColumn(d, t, c) ==
    IF d.cols[t] = <<>> \/ HasColumn(d, t, c)
    THEN [ok |-> FALSE, db |-> d]
    ELSE [ok |-> TRUE,
          db |-> [d EXCEPT
                    !.cols[t] = Append(@, c),
                    !.rows[t] = [i \in 1..Len(@) |->
                                   [k \in DOMAIN @[i] \cup {c} |->
                                      IF k = c THEN ColumnDefault(t, c) ELSE @[i][k]]]]]

\* mutant: the lookup of the column never finds it
MigrationNeededAlways(d, t) == TRUE

\* the migration block: look the column up and add it when the table lacks it
MigrationNeeded(d, t) == ~HasColumn(d, t, OptionalCol(t))

Migrate(d, t) ==
    IF MigrationNeeded(d, t) THEN AlterAddColumn(d, t, OptionalCol(t))
    ELSE [ok |-> TRUE, db |-> d]

\* SQL equality: NULL equals nothing
SqlEq(a, b) == a # NULL /\ b # NULL /\ a = b

\* the row INSERT INTO t (DOMAIN vals) VALUES (vals) stores: AUTOINCREMENT id,
\* the declared default for a column the statement does not name
NewRow(d, t, vals) ==
    [k \in Range(d.cols[t]) |->
        IF k = "id" THEN d.seq[t] + 1
        ELSE IF k \in DOMAIN vals THEN vals[k]
        ELSE ColumnDefault(t, k)]

\* username TEXT UNIQUE, on INSERT
InsertViolatesUnique(d, t, vals) ==
    /\ t = "users"
    /\ \E i \in 1..Len(d.rows[t]) : SqlEq(d.rows[t][i].username, vals.username)

Insert(d, t, vals) ==
    [d EXCEPT !.rows[t] = Append(@, NewRow(d, t, vals)),
              !.seq[t] = @ + 1]

\* mutant: the username is looked up before the UPDATE, whether or not the id matches a row
UpdateViolatesUniqueAnyId(d, t, id, vals) ==
    /\ t = "users"
    /\ \E j \in 1..Len(d.rows[t]) :
          /\ d.rows[t][j].id # id
          /\ SqlEq(d.rows[t][j].username, vals.username)

\* mutant: the UPDATE does not check the UNIQUE constraint
UpdateNeverViolatesUnique(d, t, id, vals) == FALSE

\* username TEXT UNIQUE, on UPDATE ... WHERE id = ?
UpdateViolatesUnique(d, t, id, vals) ==
    /\ t = "users"
    /\ \E i \in 1..Len(d.rows[t]) : d.rows[t][i].id = id
    /\ \E j \in 1..Len(d.rows[t]) :
          /\ d.rows[t][j].id # id
          /\ SqlEq(d.rows[t][j].username, vals.username)

\* UPDATE t SET (DOMAIN vals) = (vals) WHERE id = ?
Update(d, t, id, vals) ==
    [d EXCEPT !.rows[t] =
        [i \in 1..Len(@) |->
            IF @[i].id = id
            THEN [k \in DOMAIN @[i] |-> IF k \in DOMAIN vals THEN vals[k] ELSE @[i][k]]
            ELSE @[i]]]

\* DELETE FROM t WHERE id = ?
Delete(d, t, id) ==
    [d EXCEPT !.rows[t] = SelectSeq(@, LAMBDA r : r.id # id)]

\* SELECT * FROM users WHERE username = ?
UsersNamed(d, u) ==
    {i \in 1..Len(d.rows["users"]) : SqlEq(d.rows["users"][i].username, u)}

----------------------------------------------------------------------------
(* Startup: schema setup and seeding, one statement at a time *)

\* Seed user if not exists, else ensure admin has admin role
SetAdminRole(d) ==
    [d EXCEPT !.rows["users"] =
        [i \in 1..Len(@) |->
            IF SqlEq(@[i].username, "admin") THEN [@[i] EXCEPT !.role = "admin"] ELSE @[i]]]

\* mutant: an existing admin row is left as it is
SeedUserInsertOnly(d) ==
    IF UsersNamed(d, "admin") = {}
    THEN Insert(d, "users", [username |-> "admin", password |-> "123456",
                             name |-> "Administrator", role |-> "admin"])
    ELSE d

SeedUser(d) ==
    IF UsersNamed(d, "admin") = {}
    THEN Insert(d, "users", [username |-> "admin", password |-> "123456",
                             name |-> "Administrator", role |-> "admin"])
    ELSE SetAdminRole(d)

\* mutant: the seed step does not look at the count
SeedNeededAlways(d, t) == TRUE

\* mutant: the seed step looks at the AUTOINCREMENT counter, not at the rows
SeedNeededWhenFresh(d, t) == d.seq[t] = 0

\* SELECT count(*) ... count === 0
SeedNeeded(d, t) == Len(d.rows[t]) = 0

InitialRows(t) == IF t = "services" THEN initialServices ELSE initialTeam

\* the statements of a startup, in order; the loops are "insert" with idx
NextPc(p) ==
    CASE p = "createUsers" -> "migrateUsers"
      [] p = "migrateUsers" -> "createServices"
      [] p = "createServices" -> "migrateServices"
      [] p = "migrateServices" -> "createTeam"
      [] p = "createTeam" -> "migrateTeam"
      [] p = "migrateTeam" -> "seedUser"
      [] p = "seedUser" -> "seedServices"
      [] p = "seedServices" -> "seedTeam"
      [] p = "seedTeam" -> "listen"

TableOf(p) ==
    CASE p \in {"createUsers", "migrateUsers"} -> "users"
      [] p \in {"createServices", "migrateServices", "seedServices", "insertServices"} -> "services"
      [] p \in {"createTeam", "migrateTeam", "seedTeam", "insertTeam"} -> "team"

SchemaPcs == {"createUsers", "migrateUsers", "createServices", "migrateServices",
              "createTeam", "migrateTeam"}
SeedPcs == {"seedUser", "seedServices", "insertServices", "seedTeam", "insertTeam"}
StartupPcs == SchemaPcs \cup SeedPcs \cup {"listen"}

NoDb == [cols |-> [t \in Tables |-> <<>>], rows |-> [t \in Tables |-> <<>>],
         seq |-> [t \in Tables |-> 0]]
NoReq == [op |-> "none"]
NoRes == [status |-> 0]

\* the process is started: startServer() runs up to new Database('database.db')
Start ==
    /\ pc = "down"
    /\ pc' = "createUsers"
    /\ idx' = 0
    /\ boot' = db
    /\ errlog' = {}
    /\ req' = NoReq
    /\ res' = NoRes
    /\ UNCHANGED <<db, files, crashes, uploads, nreq>>

\* db.exec(CREATE TABLE IF NOT EXISTS ...)
CreateStep ==
    /\ pc \in {"createUsers", "createServices", "createTeam"}
    /\ db' = CreateTable(db, TableOf(pc))
    /\ pc' = NextPc(pc)
    /\ UNCHANGED <<idx, files, req, res, errlog, boot, crashes, uploads, nreq>>

\* try { table_info ... ALTER TABLE ... } catch { console.error }
MigrateStep ==
    /\ pc \in {"migrateUsers", "migrateServices", "migrateTeam"}
    /\ LET r == Migrate(db, TableOf(pc))
       IN /\ db' = r.db
          /\ errlog' = IF r.ok THEN errlog ELSE errlog \cup {TableOf(pc)}
    /\ pc' = NextPc(pc)
    /\ UNCHANGED <<idx, files, req, res, boot, crashes, uploads, nreq>>

\* the SELECT for admin and the INSERT or UPDATE it chooses; the SELECT writes
\* nothing, so dying between the two is dying before both
SeedUserStep ==
    /\ pc = "seedUser"
    /\ db' = SeedUser(db)
    /\ pc' = NextPc(pc)
    /\ UNCHANGED <<idx, files, req, res, errlog, boot, crashes, uploads, nreq>>

\* SELECT count(*): enter the forEach loop or skip it
SeedCheckStep ==
    /\ pc \in {"seedServices", "seedTeam"}
    /\ IF SeedNeeded(db, TableOf(pc))
       THEN /\ pc' = (IF pc = "seedServices" THEN "insertServices" ELSE "insertTeam")
            /\ idx' = 1
       ELSE /\ pc' = NextPc(pc)
            /\ idx' = 0
    /\ UNCHANGED <<db, files, req, res, errlog, boot, crashes, uploads, nreq>>

\* one insertService.run / insertTeam.run of the forEach
SeedInsertStep ==
    /\ pc \in {"insertServices", "insertTeam"}
    /\ db' = Insert(db, TableOf(pc), InitialRows(TableOf(pc))[idx])
    /\ IF idx < Len(InitialRows(TableOf(pc)))
       THEN /\ idx' = idx + 1
            /\ pc' = pc
       ELSE /\ idx' = 0
            /\ pc' = NextPc(IF pc = "insertServices" THEN "seedServices" ELSE "seedTeam")
    /\ UNCHANGED <<files, req, res, errlog, boot, crashes, uploads, nreq>>

\* the routes are registered and app.listen is called
Listen ==
    /\ pc = "listen"
    /\ pc' = "serving"
    /\ boot' = NoDb
    /\ crashes' = <<>>
    /\ UNCHANGED <<idx, db, files, req, res, errlog, uploads, nreq>>

\* the process dies during startup; the data file and the upload directory stay
Crash ==
    /\ pc \in StartupPcs
    /\ Len(crashes) < MaxCrashes
    /\ pc' = "down"
    /\ idx' = 0
    /\ crashes' = Append(crashes, [pc |-> pc, idx |-> idx, boot |-> boot])
    /\ boot' = NoDb
    /\ UNCHANGED <<db, files, req, res, errlog, uploads, nreq>>

\* the process is stopped while serving
Stop ==
    /\ pc = "serving"
    /\ pc' = "down"
    /\ req' = NoReq
    /\ res' = NoRes
    /\ UNCHANGED <<idx, db, files, errlog, boot, crashes, uploads, nreq>>

\* one startup, and startups one after the other
Boot == Start \/ CreateStep \/ MigrateStep \/ SeedUserStep \/ SeedCheckStep
        \/ SeedInsertStep \/ Listen

Startup == Boot \/ Stop

\* what an uninterrupted startup makes of a store
SchemaSetup(d) ==
    LET u1 == CreateTable(d, "users")
        u2 == Migrate(u1, "users").db
        s1 == CreateTable(u2, "services")
        s2 == Migrate(s1, "services").db
        t1 == CreateTable(s2, "team")
    IN Migrate(t1, "team").db

RECURSIVE InsertAll(_, _, _, _)
InsertAll(d, t, rows, i) ==
    IF i > Len(rows) THEN d ELSE InsertAll(Insert(d, t, rows[i]), t, rows, i + 1)

SeedTable(d, t) == IF SeedNeeded(d, t) THEN InsertAll(d, t, InitialRows(t), 1) ELSE d

SeedAll(d) == SeedTable(SeedTable(SeedUser(d), "services"), "team")

FullStartup(d) == SeedAll(SchemaSetup(d))

----------------------------------------------------------------------------
(* The data file a first startup may find: each table absent, or left by an *)
(* older version without its optional column, empty or with a row           *)

OldCols(t) == SelectSeq(DeclaredCols(t), LAMBDA c : c # OptionalCol(t))

OldRow(t) ==
    CASE t = "users" -> [id |-> 1, username |-> "admin", password |-> "123456", name |-> "Administrator"]
      [] t = "services" -> [id |-> 1, title |-> "Old service", description |-> "old", icon |-> "Leaf"]
      [] t = "team" -> [id |-> 1, name |-> "Old member", title |-> "old", image |-> "old.png"]

PriorTable(t) ==
    { [cols |-> <<>>, rows |-> <<>>, seq |-> 0],
      [cols |-> OldCols(t), rows |-> <<>>, seq |-> 0],
      [cols |-> OldCols(t), rows |-> <<OldRow(t)>>, seq |-> 1] }

PriorDbs ==
    { [cols |-> [t \in Tables |-> p[t].cols],
       rows |-> [t \in Tables |-> p[t].rows],
       seq |-> [t \in Tables |-> p[t].seq]] :
      p \in [Tables -> UNION {PriorTable(t) : t \in Tables}] \cap
            {q \in [Tables -> UNION {PriorTable(t) : t \in Tables}] :
                \A t \in Tables : q[t] \in PriorTable(t)} }

Init ==
    /\ pc = "down"
    /\ idx = 0
    /\ db \in PriorDbs
    /\ files = <<>>
    /\ req = NoReq
    /\ res = NoRes
    /\ errlog = {}
    /\ boot = NoDb
    /\ crashes = <<>>
    /\ uploads = <<>>
    /\ nreq = 0

SpecStartup == Init /\ [][Startup \/ Crash]_vars

----------------------------------------------------------------------------
(* Request handlers; each runs to completion while the process is serving *)

\* what the requests of the model carry
Usernames == {"admin", "bob"}
Passwords == {"123456", "pw", ""}
Names == {"Bob"}
Roles == {"admin", "editor"}

\* JavaScript truthiness of a body field: undefined, null and '' are falsy
Truthy(v) == v # NULL /\ v # ""

\* ids a request may name: those the table has handed out and some beyond
IdsOf(t) == 1..(db.seq[t] + 1)

\* mutant: the SELECT of login matches on the username alone
LoginMatchesUsername(d, u, p) ==
    {i \in 1..Len(d.rows["users"]) : SqlEq(d.rows["users"][i].username, u)}

\* db.prepare('SELECT * FROM users WHERE username = ? AND password = ?').get(...)
LoginMatches(d, u, p) ==
    {i \in 1..Len(d.rows["users"]) :
        /\ SqlEq(d.rows["users"][i].username, u)
        /\ SqlEq(d.rows["users"][i].password, p)}

FirstOf(S) == CHOOSE i \in S : \A j \in S : i <= j

\* { id, name, username, role } of the row found
PublicUser(r) == [id |-> r.id, name |-> r.name, username |-> r.username, role |-> r.role]

LoginResponse(d, u, p) ==
    IF LoginMatches(d, u, p) # {}
    THEN [status |-> 200, success |-> TRUE,
          user |-> PublicUser(d.rows["users"][FirstOf(LoginMatches(d, u, p))])]
    ELSE [status |-> 401, success |-> FALSE]

\* app.post('/api/login')
Login(u, p) ==
    /\ pc = "serving"
    /\ req' = [op |-> "login", username |-> u, password |-> p]
    /\ res' = LoginResponse(db, u, p)
    /\ UNCHANGED <<pc, idx, db, files, errlog, boot, crashes, uploads>>

\* role || 'editor'
RoleOrEditor(r) == IF Truthy(r) THEN r ELSE "editor"

\* app.post('/api/users')
PostUser(u, p, n, r) ==
    /\ pc = "serving"
    /\ req' = [op |-> "postUser", username |-> u, password |-> p]
    /\ LET vals == [username |-> u, password |-> p, name |-> n, role |-> RoleOrEditor(r)]
       IN IF InsertViolatesUnique(db, "users", vals)
          THEN /\ res' = [status |-> 400, success |-> FALSE]
               /\ db' = db
          ELSE /\ res' = [status |-> 200, id |-> db.seq["users"] + 1, username |-> u,
                          name |-> n, role |-> RoleOrEditor(r)]
               /\ db' = Insert(db, "users", vals)
    /\ UNCHANGED <<pc, idx, files, errlog, boot, crashes, uploads>>

\* mutant: the branch that keeps the password is always taken
PutUserNeverSetsPassword(p) == FALSE

\* if (password) ... else ...: the columns the UPDATE of PUT /api/users/:id sets
PutUserSetsPassword(p) == Truthy(p)

\* mutant: the UPDATE always sets the password column
PutUserValsWithPassword(u, p, n, r) ==
    [username |-> u, password |-> p, name |-> n, role |-> r]

PutUserVals(u, p, n, r) ==
    IF PutUserSetsPassword(p)
    THEN [username |-> u, password |-> p, name |-> n, role |-> r]
    ELSE [username |-> u, name |-> n, role |-> r]

\* app.put('/api/users/:id')
PutUser(id, u, p, n, r) ==
    /\ pc = "serving"
    /\ req' = [op |-> "putUser", id |-> id, username |-> u, password |-> p]
    /\ IF UpdateViolatesUnique(db, "users", id, PutUserVals(u, p, n, r))
       THEN /\ res' = [status |-> 400, success |-> FALSE]
            /\ db' = db
       ELSE /\ res' = [status |-> 200, success |-> TRUE]
            /\ db' = Update(db, "users", id, PutUserVals(u, p, n, r))
    /\ UNCHANGED <<pc, idx, files, errlog, boot, crashes, uploads>>

\* app.delete('/api/users/:id')
DeleteUser(id) ==
    /\ pc = "serving"
    /\ req' = [op |-> "deleteUser", id |-> id]
    /\ res' = [status |-> 200, success |-> TRUE]
    /\ db' = Delete(db, "users", id)
    /\ UNCHANGED <<pc, idx, files, errlog, boot, crashes, uploads>>

LoginRequest == \E u \in Usernames, p \in Passwords \cup {NULL} : Login(u, p)

\* requests that write users, their fields drawn from the given sets; the model
\* takes them while the table's counter is below its bound
UserWrite(US, PS, RS) ==
    /\ db.seq["users"] < MaxUserId
    /\ \/ \E u \in US, p \in PS, n \in Names, r \in RS : PostUser(u, p, n, r)
       \/ \E id \in IdsOf("users"), u \in US, p \in PS, n \in Names, r \in RS :
             PutUser(id, u, p, n, r)
       \/ \E id \in IdsOf("users") : DeleteUser(id)

UserRequest ==
    LoginRequest \/ UserWrite(Usernames, Passwords \cup {NULL}, Roles \cup {NULL})

Next == Startup \/ (UserRequest /\ UNCHANGED nreq)

\* the users specification starts from a data file that has no content tables yet
InitUsers == Init /\ db.cols["services"] = <<>> /\ db.cols["team"] = <<>>

Spec == InitUsers /\ [][Next]_vars

----------------------------------------------------------------------------
(* Services and team handlers *)

\* what the content requests of the model carry
ServiceBody == [title |-> "New service", description |-> "new", icon |-> "Star",
                file_url |-> "/uploads/1-0.pdf"]
TeamBody == [name |-> "New member", title |-> "new", image |-> "/uploads/1-0.png",
             icon |-> "Star"]
BodyOf(t) == IF t = "services" THEN ServiceBody ELSE TeamBody


\* app.post('/api/services'), app.post('/api/team')
PostContent(t, b) ==
    /\ pc = "serving"
    /\ req' = [op |-> "post", table |-> t]
    /\ res' = [status |-> 200, id |-> db.seq[t] + 1, body |-> b]
    /\ db' = Insert(db, t, b)
    /\ UNCHANGED <<pc, idx, files, errlog, boot, crashes, uploads>>

\* app.put('/api/services/:id'), app.put('/api/team/:id')
PutContent(t, id, b) ==
    /\ pc = "serving"
    /\ req' = [op |-> "put", table |-> t, id |-> id]
    /\ res' = [status |-> 200, success |-> TRUE]
    /\ db' = Update(db, t, id, b)
    /\ UNCHANGED <<pc, idx, files, errlog, boot, crashes, uploads>>

\* app.delete('/api/services/:id'), app.delete('/api/team/:id')
DeleteContent(t, id) ==
    /\ pc = "serving"
    /\ req' = [op |-> "delete", table |-> t, id |-> id]
    /\ res' = [status |-> 200, success |-> TRUE]
    /\ db' = Delete(db, t, id)
    /\ UNCHANGED <<pc, idx, files, errlog, boot, crashes, uploads>>

ContentRequest ==
    \E t \in {"services", "team"} :
        \/ PostContent(t, BodyOf(t))
        \/ \E id \in IdsOf(t) : PutContent(t, id, BodyOf(t))
        \/ \E id \in IdsOf(t) : DeleteContent(t, id)

\* a request is handled while the specification's budget of requests lasts
Budgeted(A) == nreq < MaxRequests /\ nreq' = nreq + 1 /\ A

\* startups and content requests, from a data file without a users table
InitContent == Init /\ db.cols["users"] = <<>>

NextContent == Startup \/ Budgeted(ContentRequest)

SpecContent == InitContent /\ [][NextContent]_vars

\* one startup, then requests on all three collections
NextCrud ==
    \/ Boot
    \/ Budgeted(ContentRequest)
    \/ Budgeted(UserWrite({"admin", "bob"}, {"pw"}, {"editor"}))

SpecCrud == Init /\ [][NextCrud]_vars

----------------------------------------------------------------------------
(* The upload handler and the static route over the upload directory *)

\* Math.round(Math.random() * 1E9) lies in 0..RandomMax; the model draws the two ends
RandomMax == 1000000000
Randoms == {0, RandomMax}

\* file.originalname of the files the model uploads, and their bytes
OriginalNames == {"a.png", "b.png", "notes"}
Contents == {<<7>>, <<8, 9>>}

\* path.extname(file.originalname)
Extname(n) == IF n \in {"a.png", "b.png"} THEN ".png" ELSE ""

\* mutant: the filename is the timestamp and the extension
FilenameWithoutRandom(ts, rnd, orig) == <<ts, 0, Extname(orig)>>

\* Date.now() + '-' + Math.round(Math.random() * 1E9) + path.extname(file.originalname),
\* kept as its three parts
Filename(ts, rnd, orig) == <<ts, rnd, Extname(orig)>>

\* `/uploads/${req.file.filename}`
ImageUrl(name) == <<"/uploads", name>>

\* the disk storage writes the file under its name, over a file of that name
StoreFile(f, name, bytes) == (name :> bytes) @@ f

\* express.static(uploadDir) mounted at /uploads
Retrieve(f, url) ==
    IF url[1] = "/uploads" /\ url[2] \in DOMAIN f
    THEN [status |-> 200, body |-> f[url[2]]]
    ELSE [status |-> 404]

\* app.post('/api/upload') with a file in the field 'image'
UploadFile(ts, rnd, orig, bytes) ==
    /\ pc = "serving"
    /\ Len(uploads) < MaxUploads
    /\ files' = StoreFile(files, Filename(ts, rnd, orig), bytes)
    /\ req' = [op |-> "upload"]
    /\ res' = [status |-> 200, success |-> TRUE, imageUrl |-> ImageUrl(Filename(ts, rnd, orig))]
    /\ uploads' = Append(uploads, [ts |-> ts, rnd |-> rnd, ext |-> Extname(orig), bytes |-> bytes,
                                   imageUrl |-> ImageUrl(Filename(ts, rnd, orig))])
    /\ UNCHANGED <<pc, idx, db, errlog, boot, crashes, nreq>>

\* app.post('/api/upload') without a file: if (!req.file)
UploadNoFile ==
    /\ pc = "serving"
    /\ req' = [op |-> "upload"]
    /\ res' = [status |-> 400, success |-> FALSE]
    /\ UNCHANGED <<pc, idx, db, files, errlog, boot, crashes, uploads, nreq>>

\* app.post('/api/upload') that multer rejects before a file is stored: if (err)
UploadError ==
    /\ pc = "serving"
    /\ req' = [op |-> "upload"]
    /\ res' = [status |-> 500, success |-> FALSE]
    /\ UNCHANGED <<pc, idx, db, files, errlog, boot, crashes, uploads, nreq>>

\* GET of a URL an upload was answered with
GetUpload(url) ==
    /\ pc = "serving"
    /\ req' = [op |-> "get", url |-> url]
    /\ res' = Retrieve(files, url)
    /\ UNCHANGED <<pc, idx, db, files, errlog, boot, crashes, uploads, nreq>>

UploadRequest ==
    \/ \E ts \in 1..MaxTime, rnd \in Randoms, orig \in OriginalNames, bytes \in Contents :
          UploadFile(ts, rnd, orig, bytes)
    \/ UploadNoFile
    \/ UploadError
    \/ \E i \in 1..Len(uploads) : GetUpload(uploads[i].imageUrl)

\* uploads, and deletions of service records, after one startup on a data file
\* that holds a service
InitUpload ==
    /\ Init
    /\ Len(db.rows["services"]) = 1
    /\ db.cols["users"] = <<>>
    /\ db.cols["team"] = <<>>

NextUpload ==
    \/ Boot
    \/ (UploadRequest /\ UNCHANGED nreq)
    \/ \E id \in IdsOf("services") : DeleteContent("services", id) /\ UNCHANGED nreq

SpecUpload == InitUpload /\ [][NextUpload]_vars

----------------------------------------------------------------------------
(* Properties of the users specification *)

Users == db.rows["users"]
UserIdx == 1..Len(db.rows["users"])

\* the step is the handling of a request of route op
IsStep(op) == pc = "serving" /\ pc' = "serving" /\ req'.op = op

\* the user row with this id (ids are unique)
UserWithId(d, id) == d.rows["users"][CHOOSE i \in 1..Len(d.rows["users"]) : d.rows["users"][i].id = id]
HasUserId(d, id) == \E i \in 1..Len(d.rows["users"]) : d.rows["users"][i].id = id

\* login as a client sees it: a 200 naming the user, or not
LogsInAs(d, u, p, id) ==
    /\ LoginResponse(d, u, p).status = 200
    /\ LoginResponse(d, u, p).user.id = id

\* C1: once the seed step for the admin user of a startup is done, and until a
\* request is handled, exactly one user row has username "admin" and its role is "admin"
C1_OneAdminAfterSeed ==
    (pc \in {"seedServices", "insertServices", "seedTeam", "insertTeam", "listen"}
        \/ (pc = "serving" /\ req = NoReq))
    => /\ Cardinality({i \in UserIdx : Users[i].username = "admin"}) = 1
       /\ \A i \in UserIdx : Users[i].username = "admin" => Users[i].role = "admin"

\* the startup found an admin row whose role was not "admin" (demoted through the
\* API), or no admin row in a table that had rows, and has seeded
C1_Witness ==
    /\ pc = "listen"
    /\ \/ \E i \in 1..Len(boot.rows["users"]) :
             /\ boot.rows["users"][i].username = "admin"
             /\ "role" \in DOMAIN boot.rows["users"][i]
             /\ boot.rows["users"][i].role = "editor"
       \/ /\ Len(boot.rows["users"]) > 0
          /\ \A i \in 1..Len(boot.rows["users"]) : boot.rows["users"][i].username # "admin"

UniqueUsernames(d) ==
    \A i, j \in 1..Len(d.rows["users"]) :
        i # j => d.rows["users"][i].username # d.rows["users"][j].username

\* C2: a POST /api/users whose username an existing user has, and a PUT /api/users/:id
\* of an existing user whose username another user has, are answered 400 and leave
\* the store as it was; no two user rows ever share a username
C2_DuplicateUsernameRejected ==
    [][ /\ (IsStep("postUser") /\ \E i \in UserIdx : Users[i].username = req'.username)
            => (res'.status = 400 /\ db' = db)
        /\ (IsStep("putUser") /\ HasUserId(db, req'.id)
              /\ \E j \in UserIdx : Users[j].id # req'.id /\ Users[j].username = req'.username)
            => (res'.status = 400 /\ db' = db)
        /\ UniqueUsernames(db') ]_vars

\* a PUT that would rename a user to another user's username was answered 400
C2_Witness ==
    /\ pc = "serving"
    /\ req.op = "putUser"
    /\ res.status = 400
    /\ HasUserId(db, req.id)
    /\ UserWithId(db, req.id).username # req.username
    /\ \E j \in UserIdx : Users[j].username = req.username

\* C3: after a successful PUT /api/users/:id of an existing user that carries no
\* password, the stored password is the one before, and a login with the new
\* username and a password that logged this user in before logs the same user in
C3_UpdateWithoutPasswordKeepsLogin ==
    [][ (IsStep("putUser") /\ req'.password = NULL /\ res'.status = 200
            /\ HasUserId(db, req'.id))
        => /\ UserWithId(db', req'.id).password = UserWithId(db, req'.id).password
           /\ \A p \in Passwords :
                 LogsInAs(db, UserWithId(db, req'.id).username, p, req'.id)
                 => LogsInAs(db', req'.username, p, req'.id) ]_vars

\* the seeded admin (id 1, password 123456) was renamed by a PUT without password
\* and logs in under the new username with the old password
C3_Witness ==
    /\ pc = "serving"
    /\ req.op = "putUser"
    /\ req.password = NULL
    /\ req.id = 1
    /\ req.username = "bob"
    /\ res.status = 200
    /\ HasUserId(db, 1)
    /\ LogsInAs(db, "bob", "123456", 1)

\* C4 as claimed: a successful PUT /api/users/:id of an existing user that carries a
\* password string, the empty string included, stores it: login then succeeds with
\* it and with no other password
C4_AnyPasswordStringReplaces ==
    [][ (IsStep("putUser") /\ req'.password \in Passwords /\ res'.status = 200
            /\ HasUserId(db, req'.id))
        => /\ UserWithId(db', req'.id).password = req'.password
           /\ LogsInAs(db', req'.username, req'.password, req'.id)
           /\ \A p \in Passwords \ {req'.password} :
                 LoginResponse(db', req'.username, p).status = 401 ]_vars

\* C4 amended: a non-empty password string replaces the stored password (login then
\* succeeds with it and with no other); an empty string leaves the stored password
\* as it was
C4_NonEmptyPasswordReplaces ==
    [][ (IsStep("putUser") /\ req'.password \in Passwords /\ res'.status = 200
            /\ HasUserId(db, req'.id))
        => IF req'.password # ""
           THEN /\ UserWithId(db', req'.id).password = req'.password
                /\ LogsInAs(db', req'.username, req'.password, req'.id)
                /\ \A p \in Passwords \ {req'.password} :
                      LoginResponse(db', req'.username, p).status = 401
           ELSE UserWithId(db', req'.id).password = UserWithId(db, req'.id).password ]_vars

\* the seeded admin (id 1, password 123456) was given the password "pw" by a PUT
C4_Witness ==
    /\ pc = "serving"
    /\ req.op = "putUser"
    /\ req.id = 1
    /\ req.password = "pw"
    /\ res.status = 200
    /\ HasUserId(db, 1)
    /\ UserWithId(db, 1).password = "pw"
    /\ LoginResponse(db, req.username, "123456").status = 401

\* C5: login with a username and a password succeeds exactly when a stored user has
\* that username and that password; the 200 carries id, name, username and role of
\* that user and nothing else of it; any other pair gets 401; the store is unchanged
C5_LoginExactMatch ==
    [][ IsStep("login") =>
        LET M == {i \in UserIdx : Users[i].username = req'.username
                                   /\ Users[i].password = req'.password}
        IN /\ db' = db
           /\ files' = files
           /\ IF req'.password # NULL /\ M # {}
              THEN /\ res'.status = 200
                   /\ DOMAIN res'.user = {"id", "name", "username", "role"}
                   /\ \E i \in M : /\ res'.user.id = Users[i].id
                                   /\ res'.user.name = Users[i].name
                                   /\ res'.user.username = Users[i].username
                                   /\ res'.user.role = Users[i].role
              ELSE /\ res'.status = 401
                   /\ "user" \notin DOMAIN res' ]_vars

\* a user created through the API has logged in
C5_Witness ==
    /\ pc = "serving"
    /\ req.op = "login"
    /\ res.status = 200
    /\ res.user.id > 1
    /\ res.user.username = "bob"

----------------------------------------------------------------------------
(* Properties of startup, seeding and the content handlers *)

\* rows of table t are the rows a held, each with the columns it had there
RowsKept(a, d, t) ==
    /\ Len(d.rows[t]) = Len(a.rows[t])
    /\ \A i \in 1..Len(a.rows[t]) :
          \A k \in DOMAIN a.rows[t][i] : d.rows[t][i][k] = a.rows[t][i][k]

\* rows of table t are the default records, in order, ids following counter base
HoldsDefaults(d, t, base) ==
    /\ Len(d.rows[t]) = Len(InitialRows(t))
    /\ \A i \in 1..Len(d.rows[t]) :
          /\ d.rows[t][i].id = base + i
          /\ \A k \in DOMAIN InitialRows(t)[i] : d.rows[t][i][k] = InitialRows(t)[i][k]
          /\ d.rows[t][i][OptionalCol(t)] = NULL

\* C6: a startup that finds services empty leaves exactly the six default records,
\* in order, with the default title, description and icon and no file URL; a
\* startup that finds a row leaves the rows as they were
C6_SeedServicesWhenEmpty ==
    pc = "listen" =>
        IF boot.rows["services"] = <<>>
        THEN /\ HoldsDefaults(db, "services", boot.seq["services"])
             /\ Len(db.rows["services"]) = 6
             /\ db.rows["services"][1].icon = "Leaf"
             /\ db.rows["services"][6].icon = "Scale"
        ELSE /\ RowsKept(boot, db, "services")
             /\ \A i \in 1..Len(db.rows["services"]) :
                   "file_url" \notin DOMAIN boot.rows["services"][i]
                   => db.rows["services"][i].file_url = NULL

\* every service was deleted through the API, and the next startup has seeded
C6_Witness ==
    /\ pc = "listen"
    /\ boot.rows["services"] = <<>>
    /\ boot.seq["services"] > 0
    /\ Len(db.rows["services"]) = 6

HasId(d, t, id) == \E i \in 1..Len(d.rows[t]) : d.rows[t][i].id = id

\* C7: a PUT or DELETE naming an id that no row of its collection has (users,
\* services or team) is answered with success and leaves the store and the
\* upload directory as they were
C7_MissingIdIsSilentNoOp ==
    [][ /\ (\/ IsStep("put") \/ IsStep("delete")) /\ ~HasId(db, req'.table, req'.id)
            => (res'.status = 200 /\ res'.success /\ db' = db /\ files' = files)
        /\ (\/ IsStep("putUser") \/ IsStep("deleteUser")) /\ ~HasId(db, "users", req'.id)
            => (res'.status = 200 /\ res'.success /\ db' = db /\ files' = files) ]_vars

\* a team member that is not there was deleted, with success, from a team that has members
C7_Witness ==
    /\ pc = "serving"
    /\ req.op = "delete"
    /\ req.table = "team"
    /\ req.id <= db.seq["team"]
    /\ ~HasId(db, "team", req.id)
    /\ Len(db.rows["team"]) > 0
    /\ res.status = 200

\* the store after a complete startup that follows one startup that died at c
\* and that had found services and team empty
SeededAsUninterrupted(c) ==
    /\ Cardinality(UsersNamed(db, "admin")) = 1
    /\ \A i \in UsersNamed(db, "admin") : db.rows["users"][i].role = "admin"
    /\ HoldsDefaults(db, "services", c.boot.seq["services"])
    /\ HoldsDefaults(db, "team", c.boot.seq["team"])
    /\ db = FullStartup(c.boot)

DiedInSeedOfEmpty(c) ==
    /\ c.pc \in SeedPcs
    /\ c.boot.rows["services"] = <<>>
    /\ c.boot.rows["team"] = <<>>

\* C9 as claimed: a startup that found services and team empty dies anywhere in
\* the seed steps; the next startup, once complete, leaves what one uninterrupted
\* startup leaves
C9_CrashAnywhereInSeed ==
    (pc = "listen" /\ Len(crashes) = 1 /\ DiedInSeedOfEmpty(crashes[1]))
    => SeededAsUninterrupted(crashes[1])

\* the startup died inside the forEach of a seed step, some rows inserted and some not
DiedMidLoop(c) == c.pc \in {"insertServices", "insertTeam"} /\ c.idx > 1

\* C9 amended: when the startup dies between the seed steps (not inside the loop
\* that inserts a collection's default rows, after some and before all of them),
\* the next startup leaves what one uninterrupted startup leaves; when it dies
\* inside the loop, the collection keeps only the rows inserted before
C9_CrashBetweenSeedSteps ==
    (pc = "listen" /\ Len(crashes) = 1 /\ DiedInSeedOfEmpty(crashes[1]))
    => IF DiedMidLoop(crashes[1])
       THEN Len(db.rows[TableOf(crashes[1].pc)]) = crashes[1].idx - 1
       ELSE SeededAsUninterrupted(crashes[1])

\* the startup died with users and services seeded and team not, and the next one is complete
C9_Witness ==
    /\ pc = "listen"
    /\ Len(crashes) = 1
    /\ DiedInSeedOfEmpty(crashes[1])
    /\ crashes[1].pc = "seedTeam"
    /\ Len(db.rows["team"]) = 3

NoDuplicates(s) == \A i, j \in 1..Len(s) : i # j => s[i] # s[j]

FullSchema(d) ==
    \A t \in Tables : /\ Range(d.cols[t]) = Range(DeclaredCols(t))
                      /\ NoDuplicates(d.cols[t])

\* C10: from every prior data file, schema setup raises no error and yields the
\* three tables with their full column sets, no column twice, every row kept;
\* run on a data file that has the full schema it changes nothing
C10_SchemaSetupIdempotent ==
    /\ errlog = {}
    /\ pc = "seedUser" =>
          /\ FullSchema(db)
          /\ \A t \in Tables :
                /\ RowsKept(boot, db, t)
                /\ \A i \in 1..Len(db.rows[t]) : DOMAIN db.rows[t][i] = Range(db.cols[t])
          /\ FullSchema(boot) => db = boot

\* the second schema setup on a data file whose users table the first one migrated
C10_Witness ==
    /\ pc = "seedUser"
    /\ FullSchema(boot)
    /\ db = boot
    /\ Len(crashes) = 1
    /\ ~HasColumn(crashes[1].boot, "users", "role")
    /\ Len(crashes[1].boot.rows["users"]) = 1
    /\ db.rows["users"][1].role = "editor"

----------------------------------------------------------------------------
(* Properties of the upload handler *)

\* the parts the filename of a stored upload was made from
NameParts(u) == <<u.ts, u.rnd, u.ext>>

\* C8 as claimed: whatever timestamps and random suffixes are drawn, the URL every
\* stored upload was answered with yields the bytes of that upload, at any later point
C8_UploadRetrievableForever ==
    \A i \in 1..Len(uploads) :
        Retrieve(files, uploads[i].imageUrl) = [status |-> 200, body |-> uploads[i].bytes]

\* C8 amended: the URL a stored upload was answered with yields the bytes of that
\* upload, at any later point, unless a later upload drew the same timestamp and
\* the same random suffix for a file of the same extension; the URL then yields
\* the bytes of the last such upload. No deletion of a record removes a file.
C8_UploadRetrievableUntilNameReused ==
    \A i \in 1..Len(uploads) :
        LET same == {j \in i..Len(uploads) : NameParts(uploads[j]) = NameParts(uploads[i])}
            last == CHOOSE j \in same : \A k \in same : k <= j
        IN /\ Retrieve(files, uploads[i].imageUrl) = [status |-> 200, body |-> uploads[last].bytes]
           /\ same = {i} => Retrieve(files, uploads[i].imageUrl).body = uploads[i].bytes

\* two uploads in the same millisecond with different random suffixes are both
\* retrievable after the service records were deleted
C8_Witness ==
    /\ pc = "serving"
    /\ Len(uploads) = 2
    /\ uploads[1].ts = uploads[2].ts
    /\ uploads[1].rnd # uploads[2].rnd
    /\ uploads[1].ext = uploads[2].ext
    /\ uploads[1].bytes # uploads[2].bytes
    /\ Retrieve(files, uploads[1].imageUrl).body = uploads[1].bytes
    /\ Retrieve(files, uploads[2].imageUrl).body = uploads[2].bytes
    /\ req.op = "delete"
    /\ db.rows["services"] = <<>>

====
